---- MODULE Spec2Model ----
(***************************************************************************)
(* Model of PayosService (src/src/payos/payos.service.ts): the payment,    *)
(* booking and seat-status tables, and the operations createPaymentLink,   *)
(* cancelPayment and handleWebhook, one action per awaited call.           *)
(***************************************************************************)
EXTENDS Integers, Sequences, FiniteSets, TLC

(* ------------------------------ bounds -------------------------------- *)
NumProcs == 2
MaxOps == 3
MaxFaults == 1
MaxClock == 2
NumBookings == 2
NumSeats == 3

(* --------------------------- program constants ------------------------ *)
MaxInt == 2147483647
TimestampModulus == 100000
RandomRange == 1000

NULL == 0

Procs == 1..NumProcs
BookingIds == 1..NumBookings
SeatIds == 1..NumSeats
Times == 1..MaxClock

\* Date.now() values and Math.random() draws used by createPaymentLink; the
\* samples carry a digit above the five the order code keeps
Timestamps == {1012345, 1012346}
Randoms == {7}

\* webhookData.code values: "00" is success, anything else is failure
Codes == {"00", "01"}

Min(a, b) == IF a < b THEN a ELSE b

\* the clock after a new Date() read: later reads see later times
Tick(t) == Min(t + 1, MaxClock)

\* Number.prototype.toString(): the decimal digits of a non-negative
\* integer, most significant first, without leading zeros
RECURSIVE toString(_)
toString(n) ==
    IF n < 10 THEN <<n>> ELSE Append(toString(n \div 10), n % 10)

\* mutant: the suffix is not padded
padStart_Missing(str, targetLength) == str

\* String.prototype.padStart(targetLength, '0')
RECURSIVE padStart(_, _)
padStart(str, targetLength) ==
    IF Len(str) >= targetLength
    THEN str
    ELSE padStart(<<0>> \o str, targetLength)

\* parseInt of a string of decimal digits
RECURSIVE parseInt(_)
parseInt(str) ==
    IF str = <<>>
    THEN 0
    ELSE parseInt(SubSeq(str, 1, Len(str) - 1)) * 10 + str[Len(str)]

\* private generateOrderCode(): `${timestampPart}${random padded to 3}`
\* parsed as an integer and clamped
generateOrderCode(timestamp, random) ==
    LET timestampPart == timestamp % TimestampModulus
        orderCode == parseInt(toString(timestampPart)
                              \o padStart(toString(random), 3))
    IN Min(orderCode, MaxInt)

OrderCodeA == generateOrderCode(1012345, 7)

OrderCodes == {generateOrderCode(t, r) : t \in Timestamps, r \in Randoms}

\* the trip every seat row and every booking belongs to
TripOfSeat(s) == IF s = NumSeats /\ NumSeats > 1 THEN 2 ELSE 1
TripOfBooking(b) == IF b = 1 THEN 1 ELSE 2

(* ------------------------------- state -------------------------------- *)
VARIABLES
    payments,      \* payosOrderCode -> Payment row (or NoPayment)
    bookings,      \* Booking.id -> [status, cancelledAt]
    seats,         \* SeatStatus row per seat
    now,           \* the clock new Date() reads
    pc,            \* per request: the await it is suspended at
    call,          \* per request: the operation and its arguments
    payment,       \* per request: local `payment`
    seatStatuses,  \* per request: local `seatStatuses`
    booking,       \* per request: local `booking`
    result,        \* per request: what the call returned or threw
    attempted,     \* per request: the steps it has invoked
    failed,        \* per request: the steps that threw (logger.error)
    emitted,       \* per request: gateway notifications delivered
    alone,         \* per request: no other request was active since it began
    pre,           \* per request: the tables when it started
    prior,         \* per request: the request its slot served just before
    opsStarted,    \* number of requests started
    limits,        \* the run's limits: concurrent requests, requests, faults
    gen,           \* a generateOrderCode call: its clock read, draw, result
    lastWrite      \* per row: the request that wrote it last (0: none)

vars == <<payments, bookings, seats, now, pc, call, payment, seatStatuses,
          booking, result, attempted, failed, emitted, alone, pre, prior,
          opsStarted, limits, gen, lastWrite>>

tables == <<payments, bookings, seats>>
locals == <<payment, seatStatuses, booking>>

NoPayment == [exists |-> FALSE, bookingId |-> NULL, status |-> "NONE"]
NoCall == [orderCode |-> 0, bookingId |-> NULL, op |-> "none", code |-> ""]
NoResult == [kind |-> "none", success |-> FALSE, message |-> ""]
NoPrior == [call |-> NoCall, clean |-> FALSE, post |-> <<>>]
Undefined == [defined |-> FALSE, found |-> FALSE, rows |-> {}]

\* orderCode of a generateOrderCode call that has not returned
NotGenerated == -1
NoOrderCode == [timestamp |-> 0, random |-> 0, orderCode |-> NotGenerated]

Returned(ok, msg) == [kind |-> "return", success |-> ok, message |-> msg]
Thrown == [kind |-> "throw", success |-> FALSE, message |-> "error"]
Response == [kind |-> "return", success |-> TRUE, message |-> "response"]

db == [payments |-> payments, bookings |-> bookings, seats |-> seats]

Active(p) == pc[p] \notin {"idle", "done"}

\* what idempotence compares: statuses, whether cancelledAt is set, seat rows
Proj(d) ==
    [payments |-> [o \in OrderCodes |-> d.payments[o].status],
     bookings |-> [b \in BookingIds |->
                     [status |-> d.bookings[b].status,
                      cancelled |-> d.bookings[b].cancelledAt # NULL]],
     seats |-> d.seats]

\* no row has been written since the requests now running began
NoWrites ==
    [payments |-> [o \in OrderCodes |-> 0],
     bookings |-> [b \in BookingIds |-> 0],
     seats |-> [s \in SeatIds |-> 0]]

(* --------------------------- repository calls ------------------------- *)
\* mutant: the lookup ignores whether a row exists
FindPayment_AnyRow(pays, orderCode) ==
    [bookingId |-> pays[orderCode].bookingId,
     status |-> pays[orderCode].status,
     defined |-> TRUE, found |-> TRUE]

\* paymentRepository.findOne({ where: { payosOrderCode } })
FindPayment(pays, orderCode) ==
    IF pays[orderCode].exists
    THEN [bookingId |-> pays[orderCode].bookingId,
          status |-> pays[orderCode].status,
          defined |-> TRUE, found |-> TRUE]
    ELSE [bookingId |-> NULL, status |-> "NONE",
          defined |-> TRUE, found |-> FALSE]

NoPaymentLocal ==
    [bookingId |-> NULL, status |-> "NONE", defined |-> FALSE, found |-> FALSE]

\* mutant: only a PENDING payment changes status
UpdatePaymentStatus_PendingOnly(pays, orderCode, status) ==
    [o \in OrderCodes |->
        IF o = orderCode /\ pays[o].exists /\ pays[o].status = "PENDING"
        THEN [pays[o] EXCEPT !.status = status]
        ELSE pays[o]]

\* paymentRepository.update({ payosOrderCode }, { status })
UpdatePaymentStatus(pays, orderCode, status) ==
    [o \in OrderCodes |->
        IF o = orderCode /\ pays[o].exists
        THEN [pays[o] EXCEPT !.status = status]
        ELSE pays[o]]

\* const paymentStatus = success ? COMPLETED : FAILED
paymentStatus(success) == IF success THEN "COMPLETED" ELSE "FAILED"

\* mutant: only a PENDING booking becomes PAID, any other is cancelled
UpdateBookingPaid_PendingOnly(bks, id) ==
    [b \in BookingIds |->
        IF b = id
        THEN [bks[b] EXCEPT !.status =
                IF bks[b].status = "PENDING" THEN "PAID" ELSE "CANCELLED"]
        ELSE bks[b]]

\* mutant: a cancelled booking is never paid (the write is conditional)
UpdateBookingPaid_UnlessCancelled(bks, id) ==
    [b \in BookingIds |->
        IF b = id /\ bks[b].status # "CANCELLED"
        THEN [bks[b] EXCEPT !.status = "PAID"]
        ELSE bks[b]]

\* bookingRepository.update({ id }, { status: PAID })
UpdateBookingPaid(bks, id) ==
    [b \in BookingIds |->
        IF b = id THEN [bks[b] EXCEPT !.status = "PAID"] ELSE bks[b]]

\* mutant: the cancellation timestamp is not written
UpdateBookingCancelled_NoTimestamp(bks, id, date) ==
    [b \in BookingIds |->
        IF b = id THEN [bks[b] EXCEPT !.status = "CANCELLED"] ELSE bks[b]]

\* bookingRepository.update({ id }, { status: CANCELLED, cancelledAt: new Date() })
UpdateBookingCancelled(bks, id, date) ==
    [b \in BookingIds |->
        IF b = id
        THEN [bks[b] EXCEPT !.status = "CANCELLED", !.cancelledAt = date]
        ELSE bks[b]]

\* seatStatusRepository.find({ where: { bookingId } })
FindSeatStatuses(sts, bookingId) ==
    {sts[s] : s \in {x \in SeatIds : sts[x].bookingId = bookingId}}

\* mutant: the lock timer is not cleared
UpdateSeatsBooked_KeepLock(sts, bookingId) ==
    [s \in SeatIds |->
        IF sts[s].bookingId = bookingId
        THEN [sts[s] EXCEPT !.state = "BOOKED"]
        ELSE sts[s]]

\* mutant: every locked seat is booked, whatever booking holds it
UpdateSeatsBooked_EveryLocked(sts, bookingId) ==
    [s \in SeatIds |->
        IF sts[s].state = "LOCKED"
        THEN [sts[s] EXCEPT !.state = "BOOKED", !.lockedUntil = NULL]
        ELSE sts[s]]

\* seatStatusRepository.update({ bookingId }, { state: BOOKED, lockedUntil: null })
UpdateSeatsBooked(sts, bookingId) ==
    [s \in SeatIds |->
        IF sts[s].bookingId = bookingId
        THEN [sts[s] EXCEPT !.state = "BOOKED", !.lockedUntil = NULL]
        ELSE sts[s]]

\* mutant: the booking reference is not cleared
UpdateSeatsAvailable_KeepBooking(sts, bookingId) ==
    [s \in SeatIds |->
        IF sts[s].bookingId = bookingId
        THEN [sts[s] EXCEPT !.state = "AVAILABLE", !.lockedUntil = NULL]
        ELSE sts[s]]

\* mutant: a released seat keeps its lock timer
UpdateSeatsAvailable_KeepLock(sts, bookingId) ==
    [s \in SeatIds |->
        IF sts[s].bookingId = bookingId
        THEN [sts[s] EXCEPT !.state = "AVAILABLE", !.bookingId = NULL]
        ELSE sts[s]]

\* seatStatusRepository.update({ bookingId },
\*   { state: AVAILABLE, bookingId: null, lockedUntil: null })
UpdateSeatsAvailable(sts, bookingId) ==
    [s \in SeatIds |->
        IF sts[s].bookingId = bookingId
        THEN [sts[s] EXCEPT !.state = "AVAILABLE", !.bookingId = NULL,
                            !.lockedUntil = NULL]
        ELSE sts[s]]

\* seatStatuses.map((seat) => seat.seatId)
seatIds(rows) == {r.seatId : r \in rows}

Notification(type, bookingId, status, tripId, ids) ==
    [bookingId |-> bookingId, status |-> status, seatIds |-> ids,
     type |-> type, tripId |-> tripId]

(* -------------------------------- Init --------------------------------- *)
\* a seat is locked for the booking of its trip; the first seat may be free
InitSeatRows(s) ==
    (IF s = 1
     THEN {[bookingId |-> NULL, state |-> "AVAILABLE", lockedUntil |-> NULL,
            seatId |-> s, tripId |-> TripOfSeat(s)]}
     ELSE {})
    \cup
    {[bookingId |-> b, state |-> "LOCKED", lockedUntil |-> MaxClock,
      seatId |-> s, tripId |-> TripOfSeat(s)]
        : b \in {x \in BookingIds : TripOfBooking(x) = TripOfSeat(s)}}

\* the first order code has a payment as createPaymentLink left it (PENDING,
\* with or without a booking); the others have none yet
InitPayments ==
    {[o \in OrderCodes |->
        IF o = OrderCodeA
        THEN [exists |-> TRUE, bookingId |-> b, status |-> "PENDING"]
        ELSE NoPayment] : b \in {NULL, 1}}

\* the service after construction, before any request
InitService(lim, pays) ==
    /\ limits = lim
    /\ payments \in pays
    /\ bookings = [b \in BookingIds |->
                     [status |-> "PENDING", cancelledAt |-> NULL]]
    /\ seats \in {f \in [SeatIds -> UNION {InitSeatRows(s) : s \in SeatIds}] :
                    \A s \in SeatIds : f[s] \in InitSeatRows(s)}
    /\ now = 1
    /\ pc = [p \in Procs |-> "idle"]
    /\ call = [p \in Procs |-> NoCall]
    /\ payment = [p \in Procs |-> NoPaymentLocal]
    /\ seatStatuses = [p \in Procs |-> Undefined]
    /\ booking = [p \in Procs |-> Undefined]
    /\ result = [p \in Procs |-> NoResult]
    /\ attempted = [p \in Procs |-> {}]
    /\ failed = [p \in Procs |-> {}]
    /\ emitted = [p \in Procs |-> <<>>]
    /\ alone = [p \in Procs |-> TRUE]
    /\ pre = [p \in Procs |-> db]
    /\ prior = [p \in Procs |-> NoPrior]
    /\ opsStarted = 0
    /\ lastWrite = NoWrites

\* no generateOrderCode call is under observation
InitWith(lim) ==
    /\ InitService(lim, InitPayments)
    /\ gen = NoOrderCode

(* ------------------------- request bookkeeping ------------------------- *)
Idle(p) == pc[p] \in {"idle", "done"}

\* a request enters the service in the first free slot: fresh locals, and the
\* bookkeeping of the run
Begin(p, c, first) ==
    /\ Idle(p)
    /\ opsStarted < limits.maxOps
    /\ p <= limits.maxActive
    /\ \A r \in 1..(p - 1) : Active(r)
    /\ opsStarted' = opsStarted + 1
    /\ call' = [call EXCEPT ![p] = c]
    /\ pc' = [pc EXCEPT ![p] = first]
    /\ payment' = [payment EXCEPT ![p] = NoPaymentLocal]
    /\ seatStatuses' = [seatStatuses EXCEPT ![p] = Undefined]
    /\ booking' = [booking EXCEPT ![p] = Undefined]
    /\ result' = [result EXCEPT ![p] = NoResult]
    /\ attempted' = [attempted EXCEPT ![p] = {}]
    /\ failed' = [failed EXCEPT ![p] = {}]
    /\ emitted' = [emitted EXCEPT ![p] = <<>>]
    /\ alone' = [q \in Procs |->
                   IF q = p THEN \A r \in Procs \ {p} : ~Active(r) ELSE FALSE]
    /\ pre' = [pre EXCEPT ![p] = db]
    /\ prior' = [prior EXCEPT ![p] =
                   IF pc[p] = "done" /\ alone[p] /\ failed[p] = {}
                   THEN [call |-> call[p], clean |-> TRUE, post |-> Proj(db)]
                   ELSE NoPrior]
    /\ lastWrite' = IF \A r \in Procs \ {p} : ~Active(r)
                    THEN NoWrites ELSE lastWrite
    /\ UNCHANGED <<tables, now, limits, gen>>

\* the request leaves the service with `res`
Finish(p, res) ==
    /\ pc' = [pc EXCEPT ![p] = "done"]
    /\ result' = [result EXCEPT ![p] = res]

Goto(p, next) ==
    /\ pc' = [pc EXCEPT ![p] = next]
    /\ UNCHANGED result

\* a call may throw while the run's fault budget lasts
Outcomes(p) ==
    IF Cardinality(failed[p]) < limits.maxFaults THEN BOOLEAN ELSE {TRUE}

Attempt(p, step, ok) ==
    /\ attempted' = [attempted EXCEPT ![p] = @ \cup {step}]
    /\ failed' = [failed EXCEPT ![p] = IF ok THEN @ ELSE @ \cup {step}]

ghost == <<call, alone, pre, prior, opsStarted, limits, gen>>

\* request p's write to `table` went through (ok) or threw: the rows its
\* filter matches now have p as their last writer
Wrote(p, table, ok) ==
    lastWrite' =
        IF ~ok THEN lastWrite
        ELSE IF table = "payments"
        THEN [lastWrite EXCEPT !.payments =
                [o \in OrderCodes |->
                    IF o = call[p].orderCode THEN p ELSE @[o]]]
        ELSE IF table = "bookings"
        THEN [lastWrite EXCEPT !.bookings =
                [b \in BookingIds |->
                    IF b = payment[p].bookingId THEN p ELSE @[b]]]
        ELSE [lastWrite EXCEPT !.seats =
                [x \in SeatIds |->
                    IF seats[x].bookingId = payment[p].bookingId
                    THEN p ELSE @[x]]]

(* ----------------------------- handleWebhook --------------------------- *)
success(p) == call[p].code = "00"

HandleWebhook(p) ==
    \E orderCode \in OrderCodes, code \in Codes :
        Begin(p, [orderCode |-> orderCode, bookingId |-> NULL,
                  op |-> "handleWebhook", code |-> code], "w_findPayment")

\* payment = await this.paymentRepository.findOne(...)
WebhookFindPayment(p) ==
    /\ pc[p] = "w_findPayment"
    /\ UNCHANGED <<tables, now, seatStatuses, booking, emitted, ghost, lastWrite>>
    /\ \E ok \in Outcomes(p) :
        /\ Attempt(p, "paymentFind", ok)
        /\ IF ~ok
           THEN /\ Finish(p, Returned(FALSE,
                        "Database error when fetching payment record"))
                /\ UNCHANGED payment
           ELSE LET found == FindPayment(payments, call[p].orderCode) IN
                /\ payment' = [payment EXCEPT ![p] = found]
                /\ IF ~found.found
                   THEN Finish(p, Returned(FALSE, "Payment record not found"))
                   ELSE Goto(p, "w_updatePayment")

\* mutant: a failed payment status write is only logged
WebhookUpdatePayment_Continue(p) ==
    /\ pc[p] = "w_updatePayment"
    /\ UNCHANGED <<bookings, seats, now, locals, emitted, ghost>>
    /\ \E ok \in Outcomes(p) :
        /\ Attempt(p, "paymentUpdate", ok)
        /\ Wrote(p, "payments", ok)
        /\ payments' = IF ok
                       THEN UpdatePaymentStatus(payments, call[p].orderCode,
                                                paymentStatus(success(p)))
                       ELSE payments
        /\ IF payment[p].bookingId # NULL
           THEN Goto(p, "w_fetchSeats")
           ELSE Finish(p, Returned(TRUE, "Webhook processed successfully"))

\* mutant: the cascade runs whether or not the payment has a booking
WebhookUpdatePayment_AlwaysCascade(p) ==
    /\ pc[p] = "w_updatePayment"
    /\ UNCHANGED <<bookings, seats, now, locals, emitted, ghost>>
    /\ \E ok \in Outcomes(p) :
        /\ Attempt(p, "paymentUpdate", ok)
        /\ Wrote(p, "payments", ok)
        /\ IF ~ok
           THEN /\ UNCHANGED payments
                /\ Finish(p, Returned(FALSE, "Failed to update payment status"))
           ELSE /\ payments' = UpdatePaymentStatus(payments, call[p].orderCode,
                                                   paymentStatus(success(p)))
                /\ Goto(p, "w_fetchSeats")

\* await this.paymentRepository.update({ payosOrderCode }, { status })
WebhookUpdatePayment(p) ==
    /\ pc[p] = "w_updatePayment"
    /\ UNCHANGED <<bookings, seats, now, locals, emitted, ghost>>
    /\ \E ok \in Outcomes(p) :
        /\ Attempt(p, "paymentUpdate", ok)
        /\ Wrote(p, "payments", ok)
        /\ IF ~ok
           THEN /\ UNCHANGED payments
                /\ Finish(p, Returned(FALSE, "Failed to update payment status"))
           ELSE /\ payments' = UpdatePaymentStatus(payments, call[p].orderCode,
                                                   paymentStatus(success(p)))
                /\ IF payment[p].bookingId # NULL
                   THEN Goto(p, "w_fetchSeats")
                   ELSE Finish(p, Returned(TRUE,
                                "Webhook processed successfully"))

\* mutant: the booking update follows the seat fetch at once
WebhookFetchSeats_SkipBookingFetch(p) ==
    /\ pc[p] = "w_fetchSeats"
    /\ UNCHANGED <<tables, now, payment, booking, emitted, ghost, lastWrite>>
    /\ \E ok \in Outcomes(p) :
        /\ Attempt(p, "seatFetch", ok)
        /\ seatStatuses' = [seatStatuses EXCEPT ![p] =
              IF ok THEN [defined |-> TRUE, found |-> TRUE,
                          rows |-> FindSeatStatuses(seats, payment[p].bookingId)]
              ELSE Undefined]
    /\ Goto(p, "w_updateBooking")

\* seatStatuses = await this.seatStatusRepository.find(...)
WebhookFetchSeats(p) ==
    /\ pc[p] = "w_fetchSeats"
    /\ UNCHANGED <<tables, now, payment, booking, emitted, ghost, lastWrite>>
    /\ \E ok \in Outcomes(p) :
        /\ Attempt(p, "seatFetch", ok)
        /\ seatStatuses' = [seatStatuses EXCEPT ![p] =
              IF ok THEN [defined |-> TRUE, found |-> TRUE,
                          rows |-> FindSeatStatuses(seats, payment[p].bookingId)]
              ELSE Undefined]
    /\ Goto(p, "w_fetchBooking")

\* booking = await this.bookingRepository.findOne(...)
WebhookFetchBooking(p) ==
    /\ pc[p] = "w_fetchBooking"
    /\ UNCHANGED <<tables, now, payment, seatStatuses, emitted, ghost, lastWrite>>
    /\ \E ok \in Outcomes(p) :
        /\ Attempt(p, "bookingFetch", ok)
        /\ booking' = [booking EXCEPT ![p] =
              IF ok THEN [defined |-> TRUE,
                          found |-> payment[p].bookingId \in BookingIds,
                          rows |-> {}]
              ELSE Undefined]
    /\ Goto(p, "w_updateBooking")

\* mutant: a failed booking update reaches the outer catch
WebhookUpdateBooking_Abort(p) ==
    /\ pc[p] = "w_updateBooking"
    /\ UNCHANGED <<payments, seats, locals, emitted, ghost>>
    /\ \E ok \in Outcomes(p) :
        /\ Attempt(p, "bookingUpdate", ok)
        /\ Wrote(p, "bookings", ok)
        /\ now' = IF success(p) THEN now ELSE Tick(now)
        /\ IF ok
           THEN /\ bookings' = IF success(p)
                               THEN UpdateBookingPaid(bookings,
                                                      payment[p].bookingId)
                               ELSE UpdateBookingCancelled(bookings,
                                        payment[p].bookingId, now)
                /\ Goto(p, "w_updateSeats")
           ELSE /\ UNCHANGED bookings
                /\ Finish(p, Returned(FALSE, "Failed to process webhook"))

\* await this.bookingRepository.update(...): PAID, or CANCELLED + new Date()
WebhookUpdateBooking(p) ==
    /\ pc[p] = "w_updateBooking"
    /\ UNCHANGED <<payments, seats, locals, emitted, ghost>>
    /\ \E ok \in Outcomes(p) :
        /\ Attempt(p, "bookingUpdate", ok)
        /\ Wrote(p, "bookings", ok)
        /\ IF success(p)
           THEN /\ bookings' = IF ok
                               THEN UpdateBookingPaid(bookings,
                                                      payment[p].bookingId)
                               ELSE bookings
                /\ UNCHANGED now
           ELSE LET date == now IN
                /\ now' = Tick(now)
                /\ bookings' = IF ok
                               THEN UpdateBookingCancelled(bookings,
                                        payment[p].bookingId, date)
                               ELSE bookings
    /\ Goto(p, "w_updateSeats")

\* mutant: a failed seat update reaches the outer catch
WebhookUpdateSeats_Abort(p) ==
    /\ pc[p] = "w_updateSeats"
    /\ UNCHANGED <<payments, bookings, now, locals, emitted, ghost>>
    /\ \E ok \in Outcomes(p) :
        /\ Attempt(p, "seatUpdate", ok)
        /\ Wrote(p, "seats", ok)
        /\ IF ok
           THEN /\ seats' = IF success(p)
                            THEN UpdateSeatsBooked(seats, payment[p].bookingId)
                            ELSE UpdateSeatsAvailable(seats,
                                                      payment[p].bookingId)
                /\ Goto(p, "w_notifyBooking")
           ELSE /\ UNCHANGED seats
                /\ Finish(p, Returned(FALSE, "Failed to process webhook"))

\* await this.seatStatusRepository.update(...): BOOKED, or AVAILABLE
WebhookUpdateSeats(p) ==
    /\ pc[p] = "w_updateSeats"
    /\ UNCHANGED <<payments, bookings, now, locals, emitted, ghost>>
    /\ \E ok \in Outcomes(p) :
        /\ Attempt(p, "seatUpdate", ok)
        /\ Wrote(p, "seats", ok)
        /\ seats' = IF ~ok THEN seats
                    ELSE IF success(p)
                    THEN UpdateSeatsBooked(seats, payment[p].bookingId)
                    ELSE UpdateSeatsAvailable(seats, payment[p].bookingId)
    /\ Goto(p, "w_notifyBooking")

\* mutant: the booking notification says PAID whatever the event was
WebhookNotifyBooking_AlwaysPaid(p) ==
    /\ pc[p] = "w_notifyBooking"
    /\ UNCHANGED <<tables, now, locals, ghost, lastWrite>>
    /\ IF booking[p].defined /\ booking[p].found
       THEN \E ok \in Outcomes(p) :
            /\ Attempt(p, "bookingNotify", ok)
            /\ emitted' = [emitted EXCEPT ![p] =
                  IF ok
                  THEN Append(@, Notification("bookingStatusChanged",
                          payment[p].bookingId, "PAID", NULL, {}))
                  ELSE @]
       ELSE UNCHANGED <<attempted, failed, emitted>>
    /\ Goto(p, "w_notifySeats")

\* if (booking) this.bookingGateway.notifyBookingStatusChanged(...)
WebhookNotifyBooking(p) ==
    /\ pc[p] = "w_notifyBooking"
    /\ UNCHANGED <<tables, now, locals, ghost, lastWrite>>
    /\ IF booking[p].defined /\ booking[p].found
       THEN \E ok \in Outcomes(p) :
            /\ Attempt(p, "bookingNotify", ok)
            /\ emitted' = [emitted EXCEPT ![p] =
                  IF ok
                  THEN Append(@, Notification("bookingStatusChanged",
                          payment[p].bookingId,
                          IF success(p) THEN "PAID" ELSE "CANCELLED",
                          NULL, {}))
                  ELSE @]
       ELSE UNCHANGED <<attempted, failed, emitted>>
    /\ Goto(p, "w_notifySeats")

\* mutant: an exception of the seat gateway is rethrown to the caller
WebhookNotifySeats_Rethrow(p) ==
    /\ pc[p] = "w_notifySeats"
    /\ UNCHANGED <<tables, now, locals, ghost, lastWrite>>
    /\ IF seatStatuses[p].defined /\ seatStatuses[p].rows # {}
       THEN \E ok \in Outcomes(p), first \in seatStatuses[p].rows :
            /\ Attempt(p, "seatNotify", ok)
            /\ emitted' = [emitted EXCEPT ![p] =
                  IF ok
                  THEN Append(@, Notification(
                          IF success(p) THEN "seatBooked" ELSE "seatsAvailable",
                          NULL, "", first.tripId,
                          seatIds(seatStatuses[p].rows)))
                  ELSE @]
            /\ Finish(p, IF ok
                         THEN Returned(TRUE, "Webhook processed successfully")
                         ELSE Thrown)
       ELSE /\ UNCHANGED <<attempted, failed, emitted>>
            /\ Finish(p, Returned(TRUE, "Webhook processed successfully"))

\* if (seatStatuses && seatStatuses.length > 0) notifySeatBooked / notifySeatsAvailable
WebhookNotifySeats(p) ==
    /\ pc[p] = "w_notifySeats"
    /\ UNCHANGED <<tables, now, locals, ghost, lastWrite>>
    /\ IF seatStatuses[p].defined /\ seatStatuses[p].rows # {}
       THEN \E ok \in Outcomes(p), first \in seatStatuses[p].rows :
            /\ Attempt(p, "seatNotify", ok)
            /\ emitted' = [emitted EXCEPT ![p] =
                  IF ok
                  THEN Append(@, Notification(
                          IF success(p) THEN "seatBooked" ELSE "seatsAvailable",
                          NULL, "", first.tripId,
                          seatIds(seatStatuses[p].rows)))
                  ELSE @]
       ELSE UNCHANGED <<attempted, failed, emitted>>
    /\ Finish(p, Returned(TRUE, "Webhook processed successfully"))

\* the outer catch: a fault outside every step-local try block
UnguardedPoints == {"w_findPayment", "w_updatePayment", "w_fetchSeats"}

WebhookCriticalError(p) ==
    /\ pc[p] \in UnguardedPoints
    /\ FALSE \in Outcomes(p)
    /\ UNCHANGED <<tables, now, locals, emitted, ghost, lastWrite>>
    /\ attempted' = attempted
    /\ failed' = [failed EXCEPT ![p] = @ \cup {"unexpected"}]
    /\ Finish(p, Returned(FALSE, "Failed to process webhook"))

(* ----------------------------- cancelPayment --------------------------- *)
CancelPayment(p) ==
    \E orderCode \in OrderCodes :
        Begin(p, [orderCode |-> orderCode, bookingId |-> NULL,
                  op |-> "cancelPayment", code |-> ""], "c_provider")

\* await this.payos.paymentRequests.cancel(orderCode)
CancelProvider(p) ==
    /\ pc[p] = "c_provider"
    /\ UNCHANGED <<tables, now, locals, emitted, ghost, lastWrite>>
    /\ \E ok \in Outcomes(p) :
        /\ Attempt(p, "provider", ok)
        /\ IF ok THEN Goto(p, "c_findPayment") ELSE Finish(p, Thrown)

\* mutant: an order code without a local Payment is an error
CancelFindPayment_NotFoundThrows(p) ==
    /\ pc[p] = "c_findPayment"
    /\ UNCHANGED <<tables, now, seatStatuses, booking, emitted, ghost, lastWrite>>
    /\ \E ok \in Outcomes(p) :
        /\ Attempt(p, "paymentFind", ok)
        /\ LET found == FindPayment(payments, call[p].orderCode) IN
           /\ payment' = [payment EXCEPT ![p] = IF ok THEN found ELSE @]
           /\ IF ok /\ found.found
              THEN Goto(p, "c_updatePayment")
              ELSE Finish(p, Thrown)

\* payment = await this.paymentRepository.findOne(...)
CancelFindPayment(p) ==
    /\ pc[p] = "c_findPayment"
    /\ UNCHANGED <<tables, now, seatStatuses, booking, emitted, ghost, lastWrite>>
    /\ \E ok \in Outcomes(p) :
        /\ Attempt(p, "paymentFind", ok)
        /\ IF ~ok
           THEN /\ Finish(p, Thrown)
                /\ UNCHANGED payment
           ELSE LET found == FindPayment(payments, call[p].orderCode) IN
                /\ payment' = [payment EXCEPT ![p] = found]
                /\ IF found.found
                   THEN Goto(p, "c_updatePayment")
                   ELSE Finish(p, Response)

\* await this.paymentRepository.update({ payosOrderCode }, { status: CANCELLED })
CancelUpdatePayment(p) ==
    /\ pc[p] = "c_updatePayment"
    /\ UNCHANGED <<bookings, seats, now, locals, emitted, ghost>>
    /\ \E ok \in Outcomes(p) :
        /\ Attempt(p, "paymentUpdate", ok)
        /\ Wrote(p, "payments", ok)
        /\ IF ~ok
           THEN /\ UNCHANGED payments
                /\ Finish(p, Thrown)
           ELSE /\ payments' = UpdatePaymentStatus(payments, call[p].orderCode,
                                                   "CANCELLED")
                /\ IF payment[p].bookingId # NULL
                   THEN Goto(p, "c_updateBooking")
                   ELSE Finish(p, Response)

\* await this.bookingRepository.update({ id }, { CANCELLED, cancelledAt: new Date() })
CancelUpdateBooking(p) ==
    /\ pc[p] = "c_updateBooking"
    /\ UNCHANGED <<payments, seats, locals, emitted, ghost>>
    /\ \E ok \in Outcomes(p), date \in {now} :
        /\ Attempt(p, "bookingUpdate", ok)
        /\ Wrote(p, "bookings", ok)
        /\ now' = Tick(now)
        /\ IF ~ok
           THEN /\ UNCHANGED bookings
                /\ Finish(p, Thrown)
           ELSE /\ bookings' = UpdateBookingCancelled(bookings,
                                    payment[p].bookingId, date)
                /\ Goto(p, "c_fetchSeats")

\* seatStatuses = await this.seatStatusRepository.find(...)
CancelFetchSeats(p) ==
    /\ pc[p] = "c_fetchSeats"
    /\ UNCHANGED <<tables, now, payment, booking, emitted, ghost, lastWrite>>
    /\ \E ok \in Outcomes(p) :
        /\ Attempt(p, "seatFetch", ok)
        /\ IF ~ok
           THEN /\ UNCHANGED seatStatuses
                /\ Finish(p, Thrown)
           ELSE /\ seatStatuses' = [seatStatuses EXCEPT ![p] =
                      [defined |-> TRUE, found |-> TRUE,
                       rows |-> FindSeatStatuses(seats, payment[p].bookingId)]]
                /\ Goto(p, "c_updateSeats")

\* await this.seatStatusRepository.update(...): release to AVAILABLE
CancelUpdateSeats(p) ==
    /\ pc[p] = "c_updateSeats"
    /\ UNCHANGED <<payments, bookings, now, locals, emitted, ghost>>
    /\ \E ok \in Outcomes(p) :
        /\ Attempt(p, "seatUpdate", ok)
        /\ Wrote(p, "seats", ok)
        /\ IF ~ok
           THEN /\ UNCHANGED seats
                /\ Finish(p, Thrown)
           ELSE /\ seats' = UpdateSeatsAvailable(seats, payment[p].bookingId)
                /\ Goto(p, "c_notifySeats")

\* if (seatStatuses.length > 0) notifySeatsAvailable(tripId, seatIds); return
CancelNotifySeats(p) ==
    /\ pc[p] = "c_notifySeats"
    /\ UNCHANGED <<tables, now, locals, ghost, lastWrite>>
    /\ IF seatStatuses[p].rows # {}
       THEN \E ok \in Outcomes(p), first \in seatStatuses[p].rows :
            /\ Attempt(p, "seatNotify", ok)
            /\ emitted' = [emitted EXCEPT ![p] =
                  IF ok
                  THEN Append(@, Notification("seatsAvailable", NULL, "",
                          first.tripId, seatIds(seatStatuses[p].rows)))
                  ELSE @]
            /\ Finish(p, IF ok THEN Response ELSE Thrown)
       ELSE /\ UNCHANGED <<attempted, failed, emitted>>
            /\ Finish(p, Response)

(* --------------------------- createPaymentLink ------------------------- *)
\* the unique order code of the Payment entity: an insert of a second row
\* with the same payosOrderCode is rejected
UniqueOrderCode(pays, orderCode) == ~pays[orderCode].exists

\* paymentRepository.create({ ..., status: PENDING }) and save
SavePayment(pays, orderCode, bookingId) ==
    [pays EXCEPT ![orderCode] =
        [exists |-> TRUE, bookingId |-> bookingId, status |-> "PENDING"]]

CreatePaymentLink(p) ==
    \E timestamp \in Timestamps, random \in Randoms,
       bookingId \in BookingIds \cup {NULL} :
        Begin(p, [orderCode |-> generateOrderCode(timestamp, random),
                  bookingId |-> bookingId,
                  op |-> "createPaymentLink", code |-> ""], "p_provider")

\* mutant: the Payment row is saved before the provider answers
CreateProvider_SaveFirst(p) ==
    /\ pc[p] = "p_provider"
    /\ UNCHANGED <<bookings, seats, now, locals, emitted, ghost, lastWrite>>
    /\ payments' = SavePayment(payments, call[p].orderCode, call[p].bookingId)
    /\ \E ok \in Outcomes(p) :
        /\ Attempt(p, "provider", ok)
        /\ IF ok THEN Goto(p, "p_save") ELSE Finish(p, Thrown)

\* await this.payos.paymentRequests.create(paymentData)
CreateProvider(p) ==
    /\ pc[p] = "p_provider"
    /\ UNCHANGED <<tables, now, locals, emitted, ghost, lastWrite>>
    /\ \E ok \in Outcomes(p) :
        /\ Attempt(p, "provider", ok)
        /\ IF ok THEN Goto(p, "p_save") ELSE Finish(p, Thrown)

\* await this.paymentRepository.save(payment)
CreateSave(p) ==
    /\ pc[p] = "p_save"
    /\ UNCHANGED <<bookings, seats, now, locals, emitted, ghost>>
    /\ \E ok \in IF UniqueOrderCode(payments, call[p].orderCode)
                THEN Outcomes(p) ELSE {FALSE} :
        /\ Attempt(p, "paymentSave", ok)
        /\ Wrote(p, "payments", ok)
        /\ IF ok
           THEN /\ payments' = SavePayment(payments, call[p].orderCode,
                                           call[p].bookingId)
                /\ Finish(p, Response)
           ELSE /\ UNCHANGED payments
                /\ Finish(p, Thrown)

(* -------------------------------- Next --------------------------------- *)
Next ==
    \E p \in Procs :
        \/ HandleWebhook(p)
        \/ WebhookFindPayment(p)
        \/ WebhookUpdatePayment(p)
        \/ WebhookFetchSeats(p)
        \/ WebhookFetchBooking(p)
        \/ WebhookUpdateBooking(p)
        \/ WebhookUpdateSeats(p)
        \/ WebhookNotifyBooking(p)
        \/ WebhookNotifySeats(p)
        \/ WebhookCriticalError(p)
        \/ CancelPayment(p)
        \/ CancelProvider(p)
        \/ CancelFindPayment(p)
        \/ CancelUpdatePayment(p)
        \/ CancelUpdateBooking(p)
        \/ CancelFetchSeats(p)
        \/ CancelUpdateSeats(p)
        \/ CancelNotifySeats(p)
        \/ CreatePaymentLink(p)
        \/ CreateProvider(p)
        \/ CreateSave(p)

\* requests served one at a time
Init == InitWith([maxOps |-> MaxOps, maxActive |-> 1, maxFaults |-> MaxFaults])

Spec == Init /\ [][Next]_vars

\* every call a request can make, each of which may throw
Steps == {"provider", "paymentFind", "paymentUpdate", "paymentSave",
          "seatFetch", "bookingFetch", "bookingUpdate", "seatUpdate",
          "bookingNotify", "seatNotify", "unexpected"}

\* a step of a handleWebhook request past its entry
WebhookStep(p) ==
    \/ WebhookFindPayment(p)
    \/ WebhookUpdatePayment(p)
    \/ WebhookFetchSeats(p)
    \/ WebhookFetchBooking(p)
    \/ WebhookUpdateBooking(p)
    \/ WebhookUpdateSeats(p)
    \/ WebhookNotifyBooking(p)
    \/ WebhookNotifySeats(p)

\* requests served one at a time, any number of their calls may throw; every
\* awaited call settles, so a suspended handleWebhook is resumed
InitFaults ==
    InitWith([maxOps |-> MaxOps - 1, maxActive |-> 1,
              maxFaults |-> Cardinality(Steps)])

SpecFaults ==
    InitFaults /\ [][Next]_vars /\ \A p \in Procs : WF_vars(WebhookStep(p))

\* a race is between two requests
Racers == 2

\* every order code has a payment of its own booking, as two
\* createPaymentLink calls left them
RacePayments ==
    {[o \in OrderCodes |->
        [exists |-> TRUE, bookingId |-> IF o = OrderCodeA THEN 1 ELSE 2,
         status |-> "PENDING"]]}

\* two requests served concurrently, interleaved at every await
InitRace ==
    /\ InitService([maxOps |-> Racers, maxActive |-> Racers,
                    maxFaults |-> MaxFaults], RacePayments)
    /\ gen = NoOrderCode

SpecRace == InitRace /\ [][Next]_vars

(* ------------------------- generateOrderCode alone --------------------- *)
\* Date.now() values a generateOrderCode call is observed with: timestamp
\* parts of one to five digits, with and without higher digits
TimestampSamples ==
    {0, 9, 99999, 100000, 1000042, 1012345, 1700000500, 2147399999}

\* Math.floor(Math.random() * 1000)
Suffixes == 0..(RandomRange - 1)

InitOrderCode ==
    /\ InitService([maxOps |-> 0, maxActive |-> 0, maxFaults |-> 0],
                   InitPayments)
    /\ gen \in {[timestamp |-> t, random |-> r, orderCode |-> NotGenerated] :
                  t \in TimestampSamples, r \in Suffixes}

\* const orderCode = this.generateOrderCode()
GenerateOrderCode ==
    /\ gen.orderCode = NotGenerated
    /\ gen' = [gen EXCEPT !.orderCode =
                  generateOrderCode(gen.timestamp, gen.random)]
    /\ UNCHANGED <<tables, now, pc, locals, result, attempted, failed, emitted,
                   call, alone, pre, prior, opsStarted, limits, lastWrite>>

NextOrderCode == GenerateOrderCode

SpecOrderCode == InitOrderCode /\ [][NextOrderCode]_vars

TypeOK ==
    /\ now \in Times
    /\ opsStarted \in 0..limits.maxOps
    /\ \A o \in OrderCodes : payments[o].status \in
          {"NONE", "PENDING", "COMPLETED", "FAILED", "CANCELLED"}
    /\ \A b \in BookingIds : bookings[b].status \in
          {"PENDING", "PAID", "CANCELLED"}
    /\ \A s \in SeatIds : seats[s].state \in {"AVAILABLE", "LOCKED", "BOOKED"}

(* ------------------------- vocabulary of the claims -------------------- *)
WebhookDone(p) == pc[p] = "done" /\ call[p].op = "handleWebhook"
CancelDone(p) == pc[p] = "done" /\ call[p].op = "cancelPayment"

\* the Payment row the request's order code matched when it started
PrePayment(p) == pre[p].payments[call[p].orderCode]

\* the booking that Payment references (NULL if none)
PreBooking(p) == PrePayment(p).bookingId

\* the seats that referenced the booking when the request started
PreSeats(p) == {s \in SeatIds : pre[p].seats[s].bookingId = PreBooking(p)}

WithBooking(p) == PrePayment(p).exists /\ PreBooking(p) # NULL

Count(seq, n) == Cardinality({i \in DOMAIN seq : seq[i] = n})

BookingNote(p, status) ==
    Notification("bookingStatusChanged", PreBooking(p), status, NULL, {})

\* the notifications of a given type the request emitted
OfType(p, type) == {i \in DOMAIN emitted[p] : emitted[p][i].type = type}

\* exactly one seat notification of `type`, for the trip and the seats that
\* referenced the booking
OneSeatNote(p, type) ==
    /\ Cardinality(OfType(p, type)) = 1
    /\ \A i \in OfType(p, type) :
        /\ emitted[p][i].seatIds = PreSeats(p)
        /\ \A s \in PreSeats(p) : emitted[p][i].tripId = TripOfSeat(s)

\* a success event for a payment with a booking, run alone, nothing failed
CleanSuccess(p) ==
    /\ WebhookDone(p) /\ alone[p] /\ failed[p] = {}
    /\ call[p].code = "00" /\ WithBooking(p)

CleanFailure(p) ==
    /\ WebhookDone(p) /\ alone[p] /\ failed[p] = {}
    /\ call[p].code # "00" /\ WithBooking(p)

SuccessTables(p) ==
    /\ payments[call[p].orderCode].status = "COMPLETED"
    /\ bookings[PreBooking(p)].status = "PAID"
    /\ \A s \in PreSeats(p) :
        seats[s].state = "BOOKED" /\ seats[s].lockedUntil = NULL
    /\ Count(emitted[p], BookingNote(p, "PAID")) = 1
    /\ Cardinality(OfType(p, "bookingStatusChanged")) = 1

(* -------------------------------- C1 ----------------------------------- *)
\* C1 as stated: after a success event handled alone without failures the
\* payment is COMPLETED, the booking PAID, its seats BOOKED with lockedUntil
\* cleared, and exactly one booking and exactly one seat-booked notification
\* were emitted.
C1_Original ==
    \A p \in Procs : CleanSuccess(p) =>
        SuccessTables(p) /\ OneSeatNote(p, "seatBooked")

\* C1 amended: as above, but the seat-booked notification is emitted exactly
\* once only when at least one seat row referenced the booking, and not at
\* all when none did.
C1_SuccessEvent ==
    \A p \in Procs : CleanSuccess(p) =>
        /\ SuccessTables(p)
        /\ IF PreSeats(p) # {}
           THEN OneSeatNote(p, "seatBooked")
           ELSE OfType(p, "seatBooked") = {}
        /\ OfType(p, "seatsAvailable") = {}

C1_Witness ==
    \E p \in Procs : CleanSuccess(p) /\ Cardinality(PreSeats(p)) = 2
                     /\ Len(emitted[p]) = 2

(* -------------------------------- C2 ----------------------------------- *)
\* C2: after a failure event (code other than "00") handled alone without
\* failures the payment is FAILED, the booking CANCELLED with cancelledAt
\* set, and every seat that referenced the booking is AVAILABLE with
\* bookingId and lockedUntil null.
C2_FailureEvent ==
    \A p \in Procs : CleanFailure(p) =>
        /\ payments[call[p].orderCode].status = "FAILED"
        /\ bookings[PreBooking(p)].status = "CANCELLED"
        /\ bookings[PreBooking(p)].cancelledAt # NULL
        /\ \A s \in PreSeats(p) :
            /\ seats[s].state = "AVAILABLE"
            /\ seats[s].bookingId = NULL
            /\ seats[s].lockedUntil = NULL

C2_Witness ==
    \E p \in Procs : CleanFailure(p) /\ Cardinality(PreSeats(p)) = 2
        /\ \A s \in PreSeats(p) : pre[p].seats[s].state = "LOCKED"

(* -------------------------------- C3 ----------------------------------- *)
\* the request repeats, with nothing in between and nothing failing, the
\* webhook event handled just before it
Replay(p) ==
    /\ WebhookDone(p) /\ alone[p] /\ failed[p] = {}
    /\ prior[p].clean /\ prior[p].call = call[p]

\* C3: handling the same event a second time leaves payment status, booking
\* status, whether cancelledAt is set, and every seat row as the first
\* handling left them.
C3_Idempotent ==
    \A p \in Procs : Replay(p) => Proj(db) = prior[p].post

C3_Witness ==
    \E p \in Procs : Replay(p) /\ WithBooking(p) /\ call[p].code = "00"
                     /\ PreSeats(p) # {}

C3_WitnessFailure ==
    \E p \in Procs : Replay(p) /\ WithBooking(p) /\ call[p].code # "00"

(* -------------------------------- C4 ----------------------------------- *)
\* the lookup ran and the order code matched no Payment
NoMatch(p) ==
    /\ WebhookDone(p) /\ alone[p]
    /\ ~PrePayment(p).exists
    /\ "paymentFind" \in attempted[p] \ failed[p]

\* C4: a webhook whose order code matches no Payment changes no row, emits
\* nothing and returns success = false, 'Payment record not found'.
C4_NotFound ==
    \A p \in Procs : NoMatch(p) =>
        /\ db = pre[p]
        /\ emitted[p] = <<>>
        /\ result[p] = Returned(FALSE, "Payment record not found")

C4_Witness ==
    \E p \in Procs : NoMatch(p) /\ opsStarted > 1

(* -------------------------------- C5 ----------------------------------- *)
\* the seat update threw after the payment and booking updates succeeded
SeatUpdateFailed(p) ==
    /\ WebhookDone(p) /\ alone[p]
    /\ "seatUpdate" \in failed[p]
    /\ "bookingUpdate" \notin failed[p]

BookingStatusFor(p) == IF success(p) THEN "PAID" ELSE "CANCELLED"

\* C5: when the seat update fails after payment and booking were updated, the
\* payment keeps the status just written, the booking keeps its new status,
\* the seats are as before, and the result is success = true, 'Webhook
\* processed successfully'.
C5_SeatFailureIsolated ==
    \A p \in Procs : SeatUpdateFailed(p) =>
        /\ payments[call[p].orderCode].status = paymentStatus(success(p))
        /\ bookings[PreBooking(p)].status = BookingStatusFor(p)
        /\ seats = pre[p].seats
        /\ result[p] = Returned(TRUE, "Webhook processed successfully")

C5_Witness ==
    \E p \in Procs : SeatUpdateFailed(p) /\ ~success(p) /\ PreSeats(p) # {}
        /\ pre[p].bookings[PreBooking(p)].status = "PENDING"

C5_WitnessSuccess ==
    \E p \in Procs : SeatUpdateFailed(p) /\ success(p) /\ PreSeats(p) # {}

(* -------------------------------- C6 ----------------------------------- *)
Downstream == {"bookingUpdate", "seatUpdate", "bookingNotify", "seatNotify"}

\* exactly one of the four downstream steps failed, and nothing else
OneDownstreamFailure(p) ==
    /\ WebhookDone(p) /\ alone[p]
    /\ \E x \in Downstream : failed[p] = {x}

\* C6 as stated: when one of the four downstream steps alone fails, the
\* other three are still attempted.
C6_Original ==
    \A p \in Procs : OneDownstreamFailure(p) => Downstream \subseteq attempted[p]

\* C6 amended: when one of the four downstream steps alone fails, the booking
\* update and the seat update are attempted, the booking notification is
\* attempted exactly when the booking exists, and the seat notification
\* exactly when at least one seat row referenced the booking.
C6_Independent ==
    \A p \in Procs : OneDownstreamFailure(p) =>
        /\ {"bookingUpdate", "seatUpdate"} \subseteq attempted[p]
        /\ "bookingNotify" \in attempted[p] <=> PreBooking(p) \in BookingIds
        /\ "seatNotify" \in attempted[p] <=> PreSeats(p) # {}

C6_Witness ==
    \E p \in Procs : OneDownstreamFailure(p) /\ failed[p] = {"bookingUpdate"}
        /\ Downstream \subseteq attempted[p] /\ Len(emitted[p]) = 2

C6_WitnessFailureBranch ==
    \E p \in Procs : OneDownstreamFailure(p) /\ failed[p] = {"bookingNotify"}
        /\ ~success(p) /\ Downstream \subseteq attempted[p]

(* -------------------------------- C7 ----------------------------------- *)
WebhookRequest(p) ==
    call[p].op = "handleWebhook" /\ pc[p] # "idle" /\ alone[p]

PaymentWritten(p) == "paymentUpdate" \in attempted[p] \ failed[p]

\* C7: until the payment status write has succeeded a handleWebhook request
\* has written no row, attempted no downstream step and emitted nothing; and
\* when that write fails the request returns success = false, 'Failed to
\* update payment status'.
C7_PaymentWriteFirst ==
    \A p \in Procs : WebhookRequest(p) =>
        /\ ~PaymentWritten(p) =>
              /\ db = pre[p]
              /\ attempted[p] \cap Downstream = {}
              /\ emitted[p] = <<>>
        /\ (pc[p] = "done" /\ "paymentUpdate" \in failed[p]) =>
              result[p] = Returned(FALSE, "Failed to update payment status")

C7_Witness ==
    \E p \in Procs : WebhookRequest(p) /\ pc[p] = "done" /\ WithBooking(p)
        /\ "paymentUpdate" \in failed[p]

(* -------------------------------- C9 ----------------------------------- *)
\* the payment matched has no booking and its status write succeeded
NoBooking(p) ==
    /\ WebhookDone(p) /\ alone[p]
    /\ PrePayment(p).exists /\ PreBooking(p) = NULL
    /\ PaymentWritten(p)

\* C9: for a payment without a booking the payment status is still written,
\* no booking or seat row is read or changed, nothing is emitted and the
\* result is success = true.
C9_NoBooking ==
    \A p \in Procs : NoBooking(p) =>
        /\ payments = UpdatePaymentStatus(pre[p].payments, call[p].orderCode,
                                          paymentStatus(success(p)))
        /\ payments[call[p].orderCode].status \in {"COMPLETED", "FAILED"}
        /\ bookings = pre[p].bookings
        /\ seats = pre[p].seats
        /\ attempted[p] = {"paymentFind", "paymentUpdate"}
        /\ emitted[p] = <<>>
        /\ result[p] = Returned(TRUE, "Webhook processed successfully")

C9_Witness ==
    \E p \in Procs : NoBooking(p) /\ success(p)
        /\ \E s \in SeatIds : seats[s].bookingId = NULL

(* -------------------------------- C10 ---------------------------------- *)
\* cancelPayment ran alone, nothing failed, and a local Payment with a
\* booking existed
CleanCancel(p) ==
    /\ CancelDone(p) /\ alone[p] /\ failed[p] = {}
    /\ WithBooking(p)

CancelTables(p) ==
    /\ result[p] = Response
    /\ payments[call[p].orderCode].status = "CANCELLED"
    /\ bookings[PreBooking(p)].status = "CANCELLED"
    /\ bookings[PreBooking(p)].cancelledAt # NULL
    /\ \A s \in PreSeats(p) :
        /\ seats[s].state = "AVAILABLE"
        /\ seats[s].bookingId = NULL
        /\ seats[s].lockedUntil = NULL

\* C10 as stated: a cancelPayment without failures leaves the payment
\* CANCELLED, the booking CANCELLED with cancelledAt set, its seats released,
\* and emits one notifySeatsAvailable with the seats that referenced the
\* booking.
C10_Original ==
    \A p \in Procs : CleanCancel(p) =>
        CancelTables(p) /\ OneSeatNote(p, "seatsAvailable")

\* C10 amended: as above, but notifySeatsAvailable is emitted once only when
\* at least one seat row referenced the booking, and not at all when none did.
C10_Cancel ==
    \A p \in Procs : CleanCancel(p) =>
        /\ CancelTables(p)
        /\ IF PreSeats(p) # {}
           THEN OneSeatNote(p, "seatsAvailable") /\ Len(emitted[p]) = 1
           ELSE emitted[p] = <<>>

C10_Witness ==
    \E p \in Procs : CleanCancel(p) /\ Cardinality(PreSeats(p)) = 2
        /\ Len(emitted[p]) = 1

(* -------------------------------- C8 ----------------------------------- *)
WebhookActive(p) == call[p].op = "handleWebhook" /\ Active(p)

WebhookMessages ==
    {"Database error when fetching payment record",
     "Payment record not found",
     "Failed to update payment status",
     "Webhook processed successfully",
     "Failed to process webhook"}

\* handleWebhook returned {success, message} and nothing was thrown
Structured(p) ==
    /\ WebhookDone(p)
    /\ result[p].kind = "return"
    /\ result[p].success \in BOOLEAN
    /\ result[p].message \in WebhookMessages
    /\ result[p].success <=> result[p].message = "Webhook processed successfully"
    /\ "unexpected" \in failed[p] =>
          result[p] = Returned(FALSE, "Failed to process webhook")

\* C8: whatever calls fail, a handleWebhook request ends by returning a
\* structured {success, message} result, never by throwing, and a fault no
\* step-local handler catches yields success = false, 'Failed to process
\* webhook'.
C8_Returns ==
    \A p \in Procs : WebhookActive(p) ~> Structured(p)

C8_Witness ==
    \E p \in Procs : Structured(p) /\ result[p].success
        /\ {"seatFetch", "bookingUpdate", "seatUpdate", "bookingNotify"}
              \subseteq failed[p]

C8_WitnessUnexpected ==
    \E p \in Procs : Structured(p) /\ "unexpected" \in failed[p]
        /\ PaymentWritten(p)

(* -------------------------------- C11 ---------------------------------- *)
\* cancelPayment ran alone for an order code without a local Payment; the
\* provider cancelled and the lookup answered
NoLocalPayment(p) ==
    /\ CancelDone(p) /\ alone[p]
    /\ ~PrePayment(p).exists
    /\ {"provider", "paymentFind"} \subseteq attempted[p] \ failed[p]

\* C11: cancelPayment for an order code with no local Payment returns the
\* provider's response normally, changes no Payment, Booking or SeatStatus
\* row, attempts no local write and emits no notification.
C11_NoLocalPayment ==
    \A p \in Procs : NoLocalPayment(p) =>
        /\ result[p] = Response
        /\ db = pre[p]
        /\ attempted[p] = {"provider", "paymentFind"}
        /\ emitted[p] = <<>>

C11_Witness ==
    \E p \in Procs : NoLocalPayment(p) /\ result[p].kind = "return"
        /\ \E s \in SeatIds : seats[s].state = "LOCKED"

(* -------------------------------- C12 ---------------------------------- *)
\* cancelPayment ran alone for a Payment with a booking; the Payment was
\* marked CANCELLED and the Booking update then threw
BookingUpdateFailed(p) ==
    /\ CancelDone(p) /\ alone[p] /\ WithBooking(p)
    /\ "paymentUpdate" \in attempted[p] \ failed[p]
    /\ "bookingUpdate" \in failed[p]

\* C12: when the Booking update of cancelPayment fails after the Payment was
\* marked CANCELLED, the SeatStatus release is still attempted, the failure
\* is only logged (the call returns normally), and the Payment stays
\* CANCELLED.
C12_StepsIndependent ==
    \A p \in Procs : BookingUpdateFailed(p) =>
        /\ "seatUpdate" \in attempted[p]
        /\ result[p].kind = "return"
        /\ payments[call[p].orderCode].status = "CANCELLED"

(* -------------------------------- C13 ---------------------------------- *)
\* a createPaymentLink or cancelPayment request, running or finished
ProviderOp(p) ==
    /\ call[p].op \in {"createPaymentLink", "cancelPayment"}
    /\ pc[p] # "idle"

ProviderSucceeded(p) == "provider" \in attempted[p] \ failed[p]

\* C13: as long as the provider call of createPaymentLink or cancelPayment
\* has not returned successfully, the request has written no Payment,
\* Booking or SeatStatus row, attempted no local step and emitted no
\* notification; and if the provider call failed the request ends by
\* throwing, with the tables as they were (no Payment row created by
\* createPaymentLink).
C13_ProviderFirst ==
    \A p \in Procs : ProviderOp(p) /\ alone[p] /\ ~ProviderSucceeded(p) =>
        /\ db = pre[p]
        /\ attempted[p] \subseteq {"provider"}
        /\ emitted[p] = <<>>
        /\ pc[p] \in {"p_provider", "c_provider", "done"}
        /\ pc[p] = "done" => "provider" \in failed[p] /\ result[p] = Thrown

C13_Witness ==
    \E p \in Procs :
        /\ CancelDone(p) /\ alone[p] /\ "provider" \in failed[p]
        /\ WithBooking(p)
        /\ payments[call[p].orderCode].status = "PENDING"

C13_WitnessCreate ==
    \E p \in Procs :
        /\ pc[p] = "done" /\ call[p].op = "createPaymentLink" /\ alone[p]
        /\ "provider" \in failed[p]
        /\ ~payments[call[p].orderCode].exists

(* -------------------------------- C14 ---------------------------------- *)
\* the decimal digit of weight 10^i of a non-negative integer
Digit(n, i) == (n \div (10 ^ i)) % 10

\* the last five decimal digits of the timestamp followed by the three
\* digits of the zero-padded suffix, read as one decimal number
Concatenated(timestamp, random) ==
      Digit(timestamp, 4) * 10000000 + Digit(timestamp, 3) * 1000000
    + Digit(timestamp, 2) * 100000 + Digit(timestamp, 1) * 10000
    + Digit(timestamp, 0) * 1000
    + Digit(random, 2) * 100 + Digit(random, 1) * 10 + Digit(random, 0)

OrderCodeReturned == gen.orderCode # NotGenerated

\* C14: for every sampled millisecond timestamp and every suffix in 0..999
\* generateOrderCode returns an integer in [0, 2147483647], namely the last
\* five decimal digits of the timestamp concatenated with the 3-digit
\* zero-padded suffix, clamped to 2147483647.
C14_OrderCode ==
    OrderCodeReturned =>
        /\ gen.orderCode \in 0..MaxInt
        /\ gen.orderCode =
              Min(Concatenated(gen.timestamp, gen.random), MaxInt)

\* a timestamp part with leading zeros and a suffix that needs padding
C14_Witness ==
    /\ OrderCodeReturned
    /\ gen.timestamp = 1000042 /\ gen.random = 7
    /\ gen.orderCode = 42007

(* -------------------------------- C15 ---------------------------------- *)
\* C15: in every reachable state every Booking has its cancellation
\* timestamp set if and only if its status is CANCELLED.
C15_BookingInvariant ==
    \A b \in BookingIds :
        bookings[b].cancelledAt # NULL <=> bookings[b].status = "CANCELLED"

(* -------------------------------- C17 ---------------------------------- *)
\* a handleWebhook request, running or finished
WebhookRun(p) == call[p].op = "handleWebhook" /\ pc[p] # "idle"

\* step a was invoked before step b: b is never seen attempted without a
Precedes(p, a, b) == b \in attempted[p] => a \in attempted[p]

\* C17 as stated: within one handleWebhook the Payment status write comes
\* first, then the Booking update, then the SeatStatus fetch and the
\* SeatStatus update, then the notifications.
C17_Original ==
    \A p \in Procs : WebhookRun(p) =>
        /\ Precedes(p, "paymentUpdate", "bookingUpdate")
        /\ Precedes(p, "bookingUpdate", "seatFetch")
        /\ Precedes(p, "seatFetch", "seatUpdate")
        /\ Precedes(p, "seatUpdate", "bookingNotify")
        /\ Precedes(p, "seatUpdate", "seatNotify")

\* C17 amended: within one handleWebhook the Payment status write comes
\* first, then the SeatStatus fetch and the Booking fetch, then the Booking
\* update, then the SeatStatus update, then the notifications; the SeatStatus
\* fetch happens before the Booking update.
C17_StepOrder ==
    \A p \in Procs : WebhookRun(p) =>
        /\ Precedes(p, "paymentFind", "paymentUpdate")
        /\ Precedes(p, "paymentUpdate", "seatFetch")
        /\ Precedes(p, "seatFetch", "bookingFetch")
        /\ Precedes(p, "bookingFetch", "bookingUpdate")
        /\ Precedes(p, "bookingUpdate", "seatUpdate")
        /\ Precedes(p, "seatUpdate", "bookingNotify")
        /\ Precedes(p, "seatUpdate", "seatNotify")
        /\ pc[p] = "w_updateBooking" =>
              "seatFetch" \in attempted[p] /\ "bookingUpdate" \notin attempted[p]

C17_Witness ==
    \E p \in Procs : WebhookDone(p) /\ failed[p] = {}
        /\ attempted[p] = {"paymentFind", "paymentUpdate", "seatFetch",
                           "bookingFetch", "bookingUpdate", "seatUpdate",
                           "bookingNotify", "seatNotify"}

\* the seats are fetched while the Booking update is still to come
C17_WitnessFetchFirst ==
    \E p \in Procs : WebhookRun(p) /\ pc[p] = "w_updateBooking"
        /\ seatStatuses[p].rows # {}
        /\ bookings[payment[p].bookingId].status = "PENDING"

(* -------------------------------- C20 ---------------------------------- *)
PriorStatuses == {"PENDING", "COMPLETED", "FAILED", "CANCELLED"}

\* the seats that were AVAILABLE with no booking when the request started
ReleasedBefore(p) ==
    {s \in SeatIds : /\ pre[p].seats[s].state = "AVAILABLE"
                     /\ pre[p].seats[s].bookingId = NULL}

\* C20: whatever the Payment's status before the event, a handleWebhook that
\* runs alone without a failing call leaves the Payment COMPLETED and the
\* Booking PAID for code "00", and the Payment FAILED and the Booking
\* CANCELLED for any other code; a success event keeps every seat that was
\* already released AVAILABLE with no booking reference.
C20_PriorStatusIgnored ==
    \A p \in Procs : CleanSuccess(p) \/ CleanFailure(p) =>
        /\ PrePayment(p).status \in PriorStatuses
        /\ payments[call[p].orderCode].status =
              IF success(p) THEN "COMPLETED" ELSE "FAILED"
        /\ bookings[PreBooking(p)].status =
              IF success(p) THEN "PAID" ELSE "CANCELLED"
        /\ \A s \in ReleasedBefore(p) :
              /\ seats[s].state = "AVAILABLE"
              /\ seats[s].bookingId = NULL
              /\ seats[s].lockedUntil = NULL

\* a success event after a cancel that had released the booking's seats
C20_Witness ==
    \E p \in Procs :
        /\ CleanSuccess(p)
        /\ PrePayment(p).status = "CANCELLED"
        /\ pre[p].bookings[PreBooking(p)].status = "CANCELLED"
        /\ prior[p].call.op = "cancelPayment"
        /\ \E s \in ReleasedBefore(p) : TripOfSeat(s) = TripOfBooking(PreBooking(p))
        /\ PreSeats(p) = {}

\* a success event after a failure event
C20_WitnessAfterFailure ==
    \E p \in Procs :
        /\ CleanSuccess(p)
        /\ PrePayment(p).status = "FAILED"
        /\ pre[p].bookings[PreBooking(p)].status = "CANCELLED"
        /\ Cardinality(ReleasedBefore(p)) >= 2

\* a failure event after a success event
C20_WitnessOutOfOrder ==
    \E p \in Procs :
        /\ CleanFailure(p)
        /\ PrePayment(p).status = "COMPLETED"
        /\ pre[p].bookings[PreBooking(p)].status = "PAID"

(* -------------------------------- C16 ---------------------------------- *)
\* requests p and q ran at the same time and both have finished
Overlapped(p, q) ==
    /\ p # q
    /\ pc[p] = "done" /\ pc[q] = "done"
    /\ ~alone[p] /\ ~alone[q]

\* C16: in every state reached by handleWebhook and cancelPayment requests in
\* any order and interleaving, with calls failing, every SeatStatus row has
\* a booking reference iff its state is LOCKED or BOOKED, and a lockedUntil
\* only while it is LOCKED.
C16_SeatInvariant ==
    \A s \in SeatIds :
        /\ seats[s].bookingId # NULL <=> seats[s].state \in {"LOCKED", "BOOKED"}
        /\ seats[s].lockedUntil # NULL => seats[s].state = "LOCKED"

\* a webhook and a cancel ran at the same time, a call failed, and both wrote
\* seat rows
C16_Witness ==
    \E p, q \in Procs :
        /\ Overlapped(p, q)
        /\ call[p].op = "handleWebhook" /\ call[q].op = "cancelPayment"
        /\ failed[p] \cup failed[q] # {}
        /\ \E s \in SeatIds : seats[s].state = "BOOKED" /\ lastWrite.seats[s] = p
        /\ \E s \in SeatIds : seats[s].state = "AVAILABLE" /\ lastWrite.seats[s] = q

(* -------------------------------- C18 ---------------------------------- *)
\* handleWebhook p and cancelPayment q ran at the same time for the same
\* order code, no call of either failed, and both have finished
RacePair(p, q) ==
    /\ Overlapped(p, q)
    /\ call[p].op = "handleWebhook" /\ call[q].op = "cancelPayment"
    /\ call[p].orderCode = call[q].orderCode
    /\ failed[p] = {} /\ failed[q] = {}
    /\ WithBooking(p) /\ WithBooking(q)

\* the seats that referenced the booking when either request started
RaceSeats(p, q) == PreSeats(p) \cup PreSeats(q)

\* what each of the two writes into a row of the given table
WrittenBy(w, p, table) ==
    IF call[w].op = "cancelPayment"
    THEN (IF table = "payments" THEN "CANCELLED"
          ELSE IF table = "bookings" THEN "CANCELLED" ELSE "AVAILABLE")
    ELSE (IF table = "payments" THEN paymentStatus(success(p))
          ELSE IF table = "bookings"
          THEN (IF success(p) THEN "PAID" ELSE "CANCELLED")
          ELSE (IF success(p) THEN "BOOKED" ELSE "AVAILABLE"))

\* C18: after a handleWebhook and a cancelPayment for the same order code
\* have interleaved and both completed without a failing call, the Payment
\* row, the Booking row and every seat row each hold the value of whichever
\* of the two wrote that row last.
C18_LastWriteWins ==
    \A p, q \in Procs : RacePair(p, q) =>
        LET o == call[p].orderCode
            b == PreBooking(p)
        IN /\ lastWrite.payments[o] \in {p, q}
           /\ payments[o].status = WrittenBy(lastWrite.payments[o], p, "payments")
           /\ lastWrite.bookings[b] \in {p, q}
           /\ bookings[b].status = WrittenBy(lastWrite.bookings[b], p, "bookings")
           /\ \A s \in RaceSeats(p, q) :
                /\ lastWrite.seats[s] \in {p, q}
                /\ seats[s].state = WrittenBy(lastWrite.seats[s], p, "seats")

\* the cancel wrote the Payment last, the success event the Booking
C18_Witness ==
    \E p, q \in Procs :
        /\ RacePair(p, q) /\ success(p)
        /\ payments[call[p].orderCode].status = "CANCELLED"
        /\ bookings[PreBooking(p)].status = "PAID"

\* the success event wrote the Payment last, the cancel the seats
C18_WitnessSeats ==
    \E p, q \in Procs :
        /\ RacePair(p, q) /\ success(p)
        /\ payments[call[p].orderCode].status = "COMPLETED"
        /\ RaceSeats(p, q) # {}
        /\ \A s \in RaceSeats(p, q) :
              seats[s].state = "AVAILABLE" /\ lastWrite.seats[s] = q

(* -------------------------------- C19 ---------------------------------- *)
\* a handleWebhook or cancelPayment request, running or finished
CascadeRun(p) ==
    /\ call[p].op \in {"handleWebhook", "cancelPayment"}
    /\ pc[p] # "idle"

\* the rows outside the request's order code, booking and seats are as they
\* were when it started
FrameKept(p) ==
    /\ \A o \in OrderCodes \ {call[p].orderCode} :
          payments[o] = pre[p].payments[o]
    /\ \A b \in BookingIds \ {PreBooking(p)} :
          bookings[b] = pre[p].bookings[b]
    /\ \A s \in SeatIds :
          PreBooking(p) = NULL \/ pre[p].seats[s].bookingId # PreBooking(p)
              => seats[s] = pre[p].seats[s]

\* the tables d after request w has run alone on them without a failing call
EffectOf(w, d) ==
    LET o == call[w].orderCode
        b == d.payments[o].bookingId
        paid == call[w].op = "handleWebhook" /\ success(w)
        status == IF call[w].op = "cancelPayment" THEN "CANCELLED"
                  ELSE paymentStatus(success(w))
    IN IF ~d.payments[o].exists THEN d
       ELSE [payments |-> UpdatePaymentStatus(d.payments, o, status),
             bookings |-> IF b = NULL THEN d.bookings
                          ELSE IF paid THEN UpdateBookingPaid(d.bookings, b)
                          ELSE UpdateBookingCancelled(d.bookings, b, 1),
             seats |-> IF b = NULL THEN d.seats
                       ELSE IF paid THEN UpdateSeatsBooked(d.seats, b)
                       ELSE UpdateSeatsAvailable(d.seats, b)]

\* p and q ran at the same time for different order codes with different
\* bookings, no call of either failed, and both have finished
IndependentPair(p, q) ==
    /\ Overlapped(p, q)
    /\ CascadeRun(p) /\ CascadeRun(q)
    /\ call[p].orderCode # call[q].orderCode
    /\ WithBooking(p) /\ WithBooking(q)
    /\ PreBooking(p) # PreBooking(q)
    /\ failed[p] = {} /\ failed[q] = {}

\* C19: a handleWebhook or cancelPayment request that runs alone leaves every
\* Payment of another order code, every other Booking and every seat row not
\* referencing its Booking unchanged, whether or not a call fails; and two
\* such requests for different order codes with different bookings,
\* interleaved in any way, end in the state that running them one after the
\* other, in either order, produces.
C19_Independent ==
    /\ \A p \in Procs : CascadeRun(p) /\ alone[p] => FrameKept(p)
    /\ \A p, q \in Procs : IndependentPair(p, q) =>
          \A f \in {p, q} :
              /\ Proj(db) = Proj(EffectOf(q, EffectOf(p, pre[f])))
              /\ Proj(db) = Proj(EffectOf(p, EffectOf(q, pre[f])))

\* a success event and a cancel for different order codes ran together
C19_Witness ==
    \E p, q \in Procs :
        /\ IndependentPair(p, q)
        /\ call[p].op = "handleWebhook" /\ success(p)
        /\ call[q].op = "cancelPayment"
        /\ bookings[PreBooking(p)].status = "PAID"
        /\ bookings[PreBooking(q)].status = "CANCELLED"
        /\ PreSeats(p) # {} /\ PreSeats(q) # {}
        /\ \A s \in PreSeats(p) : seats[s].state = "BOOKED"
        /\ \A s \in PreSeats(q) : seats[s].state = "AVAILABLE"

(* -------------------------------- C21 ---------------------------------- *)
\* the stored rows are what notification n tells its observers
Agrees(n) ==
    IF n.type = "bookingStatusChanged"
    THEN bookings[n.bookingId].status = n.status
    ELSE \A s \in n.seatIds :
            seats[s].state =
                IF n.type = "seatBooked" THEN "BOOKED" ELSE "AVAILABLE"

\* notification n tells the outcome the Payment row records
AgreesWithPayment(p, n) ==
    LET paid == payments[call[p].orderCode].status = "COMPLETED" IN
    IF n.type = "bookingStatusChanged"
    THEN n.status = (IF paid THEN "PAID" ELSE "CANCELLED")
    ELSE n.type = (IF paid THEN "seatBooked" ELSE "seatsAvailable")

\* the update step behind notification n
UpdateStepOf(n) ==
    IF n.type = "bookingStatusChanged" THEN "bookingUpdate" ELSE "seatUpdate"

\* C21 as stated: every notification a handleWebhook running alone has
\* emitted agrees with the stored Booking status, respectively the stored
\* state of the seats it names, also when an update step has failed.
C21_Original ==
    \A p \in Procs : WebhookRun(p) /\ alone[p] =>
        \A i \in DOMAIN emitted[p] : Agrees(emitted[p][i])

\* C21 amended: every notification a handleWebhook running alone has emitted
\* tells the outcome recorded in the Payment row (PAID / seat-booked for
\* COMPLETED, CANCELLED / seats-available for FAILED); it agrees with the
\* stored Booking status, respectively the stored state of the seats it
\* names, when the corresponding update step (Booking update, SeatStatus
\* update) has not failed.
C21_ObserversAgree ==
    \A p \in Procs : WebhookRun(p) /\ alone[p] =>
        \A i \in DOMAIN emitted[p] :
            /\ AgreesWithPayment(p, emitted[p][i])
            /\ UpdateStepOf(emitted[p][i]) \notin failed[p]
                  => Agrees(emitted[p][i])

\* the seat update failed: the booking notification agrees with the stored
\* Booking, the seat notification names seats that are still LOCKED
C21_Witness ==
    \E p \in Procs :
        /\ WebhookDone(p) /\ alone[p] /\ success(p)
        /\ failed[p] = {"seatUpdate"}
        /\ Len(emitted[p]) = 2
        /\ Agrees(emitted[p][1]) /\ ~Agrees(emitted[p][2])
        /\ bookings[PreBooking(p)].status = "PAID"

\* nothing failed and both notifications agree with the stored rows
C21_WitnessClean ==
    \E p \in Procs :
        /\ CleanFailure(p) /\ Len(emitted[p]) = 2
        /\ \A i \in DOMAIN emitted[p] : Agrees(emitted[p][i])
        /\ emitted[p][2].seatIds # {}

====
